---- MODULE Spec2Model ----
(***************************************************************************)
(* Gitstaller (src/gitstaller.py): a git-based package manager.  One tool  *)
(* invocation constructs a Gitstaller (which loads installed.json) and     *)
(* runs exactly one of install / update / reinstall / remove.              *)
(*                                                                         *)
(* Python strings are modelled as sequences of one-character strings, so   *)
(* that the string operations of the code (split, replace, LooseVersion    *)
(* parsing) are computed and not assumed.                                  *)
(***************************************************************************)
EXTENDS Integers, Sequences, FiniteSets, TLC

(***************************************************************************)
(* Character tables.                                                       *)
(***************************************************************************)
Digits == <<"0", "1", "2", "3", "4", "5", "6", "7", "8", "9">>

Lower == <<"a", "b", "c", "d", "e", "f", "g", "h", "i", "j", "k", "l", "m",
           "n", "o", "p", "q", "r", "s", "t", "u", "v", "w", "x", "y", "z">>

IndexIn(c, tbl) == CHOOSE i \in 1..Len(tbl) : tbl[i] = c

IsDigit(c) == \E i \in 1..Len(Digits) : Digits[i] = c

IsLower(c) == \E i \in 1..Len(Lower) : Lower[i] = c

DigitVal(c) == IndexIn(c, Digits) - 1

\* Code point of a character (ASCII), for str < str comparisons.
Ord(c) ==
    IF IsDigit(c) THEN 48 + DigitVal(c)
    ELSE IF IsLower(c) THEN 96 + IndexIn(c, Lower)
    ELSE CASE c = "\t" -> 9
           [] c = "\n" -> 10
           [] c = "-" -> 45
           [] c = "." -> 46
           [] c = "/" -> 47
           [] c = "^" -> 94
           [] c = "{" -> 123
           [] c = "}" -> 125

(***************************************************************************)
(* Python str operations used by the code.                                 *)
(***************************************************************************)
\* s.startswith(p)
StartsWith(s, p) == Len(s) >= Len(p) /\ SubSeq(s, 1, Len(p)) = p

\* s.split(sep) for a one-character sep: the pieces between the
\* occurrences of sep; never empty, ''.split(sep) == [''].
Split(s, sep) ==
    LET at == {i \in 1..Len(s) : s[i] = sep}
        nth(k) == CHOOSE i \in at : Cardinality({j \in at : j < i}) = k - 1
        n == Cardinality(at) + 1
    IN  [k \in 1..n |->
            SubSeq(s, IF k = 1 THEN 1 ELSE nth(k - 1) + 1,
                      IF k = n THEN Len(s) ELSE nth(k) - 1)]

\* seq[-1]
Last(seq) == seq[Len(seq)]

RECURSIVE Replace(_, _)
\* s.replace(old, ''): every occurrence of old is removed, left to right.
Replace(s, old) ==
    IF s = <<>> THEN <<>>
    ELSE IF StartsWith(s, old) THEN Replace(SubSeq(s, Len(old) + 1, Len(s)), old)
    ELSE <<Head(s)>> \o Replace(Tail(s), old)

RECURSIVE StrLess(_, _)
\* a < b on Python strings (lexicographic by code point).
StrLess(a, b) ==
    IF b = <<>> THEN FALSE
    ELSE IF a = <<>> THEN TRUE
    ELSE IF Head(a) = Head(b) THEN StrLess(Tail(a), Tail(b))
    ELSE Ord(Head(a)) < Ord(Head(b))

RECURSIVE Join(_, _)
\* sep.join(lines)
Join(lines, sep) ==
    IF lines = <<>> THEN <<>>
    ELSE IF Len(lines) = 1 THEN lines[1]
    ELSE lines[1] \o <<sep>> \o Join(Tail(lines), sep)

(***************************************************************************)
(* distutils.version.LooseVersion, as used by the sort keys of lines 38    *)
(* and 47.  A parsed version is a list of components; a component is an    *)
(* int (num = TRUE, value n) or a str (num = FALSE, value s).              *)
(***************************************************************************)
CharClass(c) == IF IsDigit(c) THEN "digit" ELSE IF IsLower(c) THEN "lower" ELSE "other"

RECURSIVE Pieces(_, _)
\* component_re.split(vstring) without the empty pieces and the '.' pieces:
\* maximal runs of digits, of lowercase letters, and of anything else; cur is
\* the run being collected.
Pieces(s, cur) ==
    IF s = <<>> THEN (IF cur = <<>> THEN <<>> ELSE <<cur>>)
    ELSE IF Head(s) = "." THEN
        (IF cur = <<>> THEN <<>> ELSE <<cur>>) \o Pieces(Tail(s), <<>>)
    ELSE IF cur = <<>> \/ CharClass(Last(cur)) = CharClass(Head(s)) THEN
        Pieces(Tail(s), Append(cur, Head(s)))
    ELSE <<cur>> \o Pieces(Tail(s), <<Head(s)>>)

RECURSIVE IntOf(_, _)
\* int(piece) of a run of digits, acc is the value read so far.
IntOf(s, acc) == IF s = <<>> THEN acc ELSE IntOf(Tail(s), 10 * acc + DigitVal(Head(s)))

\* try: components[i] = int(obj)  except ValueError: pass
Component(piece) ==
    IF IsDigit(Head(piece))
    THEN [num |-> TRUE, n |-> IntOf(piece, 0), s |-> <<>>]
    ELSE [num |-> FALSE, n |-> 0, s |-> piece]

\* LooseVersion(vstring).version
LooseVersion(vstring) ==
    LET ps == Pieces(vstring, <<>>) IN [i \in 1..Len(ps) |-> Component(ps[i])]

\* x < y on two components.  int < str raises TypeError in Python 3; no such
\* pair is compared for the tag names modelled here, and the CASE has no arm
\* for it.
ComponentLess(x, y) ==
    CASE x.num /\ y.num -> x.n < y.n
      [] ~x.num /\ ~y.num -> StrLess(x.s, y.s)

RECURSIVE VersionLess(_, _)
\* LooseVersion.__lt__: Python list comparison of the two component lists.
VersionLess(a, b) ==
    IF b = <<>> THEN FALSE
    ELSE IF a = <<>> THEN TRUE
    ELSE IF Head(a) = Head(b) THEN VersionLess(Tail(a), Tail(b))
    ELSE ComponentLess(Head(a), Head(b))

RECURSIVE InsertDesc(_, _)
\* The decorated item x placed into the descending list sorted, behind every
\* element whose key is not smaller than the key of x (the sort is stable).
InsertDesc(x, sorted) ==
    IF sorted = <<>> THEN <<x>>
    ELSE IF VersionLess(Head(sorted).key, x.key) THEN <<x>> \o sorted
    ELSE <<Head(sorted)>> \o InsertDesc(x, Tail(sorted))

RECURSIVE SortedDescFrom(_, _)
SortedDescFrom(items, sorted) ==
    IF items = <<>> THEN sorted
    ELSE SortedDescFrom(Tail(items), InsertDesc(Head(items), sorted))

\* sorted(items, key=..., reverse=True), keys being the list of the keys of
\* the items (the key function is applied once to each item, then the
\* items are ordered by their keys).
SortedDesc(items, keys) ==
    LET decorated == [i \in 1..Len(items) |-> [key |-> keys[i], item |-> items[i]]]
        sorted == SortedDescFrom(decorated, <<>>)
    IN [i \in 1..Len(sorted) |-> sorted[i].item]

(***************************************************************************)
(* Strings of the program and of the modelled environment.                 *)
(***************************************************************************)
MAIN == <<"m", "a", "i", "n">>

LATEST_RELEASE == <<"l", "a", "t", "e", "s", "t", "-", "r", "e", "l", "e", "a", "s", "e">>

VERSION == <<"v", "e", "r", "s", "i", "o", "n">>

DOT_GIT == <<".", "g", "i", "t">>

\* An argument that was not given (argparse leaves it None); the code only
\* tests it for truth, where None and '' agree.
NONE == <<>>

\* Result of _get_latest_tag: a tag name, None, or an IndexError raised;
\* NotRun while it was not called.
NotRun == [kind |-> "not run", val |-> <<>>]

Str(v) == [kind |-> "str", val |-> v]

None == [kind |-> "None", val |-> <<>>]

IndexError == [kind |-> "IndexError", val |-> <<>>]

\* Python truth of a str-or-None value.
Truthy(r) == r.kind = "str" /\ r.val # <<>>

\* Key of line 38: LooseVersion(t.split('/')[-1])
LineKey(t) == LooseVersion(Last(Split(t, "/")))

\* Lines 37-40 of _get_latest_tag, given the text that
\* g.ls_remote(repo_url, tags=True) returned.
LatestTag(output) ==
    LET lines == Split(output, "\n")
        tags == SortedDesc(lines, [i \in 1..Len(lines) |-> LineKey(lines[i])])
    IN
    IF tags # <<>> THEN
        LET fields == Split(tags[1], "\t") IN
        IF Len(fields) < 2 THEN IndexError
        ELSE Str(Last(Split(fields[2], "/")))
    ELSE None

\* _extract_name without the removal of ".git"
_extract_name_keeps_suffix(repo_url) == Last(Split(repo_url, "/"))

\* _extract_name
_extract_name(repo_url) == Replace(Last(Split(repo_url, "/")), DOT_GIT)

(***************************************************************************)
(* The modelled environment: locators, refs and remote tag listings.       *)
(***************************************************************************)
L_FOO_GIT == <<"a", "/", "f", "o", "o", ".", "g", "i", "t">>

L_FOO == <<"b", "/", "f", "o", "o">>

L_BAR == <<"a", "/", "b", "a", "r">>

\* The locators the modelled command lines name: two that derive one name.
Locators == {L_FOO_GIT, L_FOO}

\* The package names the modelled command lines name.
Names == {_extract_name(u) : u \in Locators}

DEADBEEF == <<"d", "e", "a", "d", "b", "e", "e", "f">>

\* The branch a clone without branch= leaves checked out.
HEAD == <<"H", "E", "A", "D">>

V1_9_0 == <<"v", "1", ".", "9", ".", "0">>

V1_10_0 == <<"v", "1", ".", "1", "0", ".", "0">>

V1_2_0 == <<"v", "1", ".", "2", ".", "0">>

V2_0_0 == <<"v", "2", ".", "0", ".", "0">>

V0_9_9 == <<"v", "0", ".", "9", ".", "9">>

V1_9_1 == <<"v", "1", ".", "9", ".", "1">>

Releases == <<V1_9_0, V1_10_0, V1_2_0, V2_0_0, V0_9_9, V1_9_1>>

\* How many of the Releases a remote may carry as tags when a command runs.
MaxRemoteTags == 1

\* How many of the Releases a remote may carry as tags when the resolver is
\* run on its own.
NumReleases == 4

\* Suffix of the peeled entry git ls-remote prints after an annotated tag.
PEEL == <<"^", "{", "}">>

REFS_TAGS == <<"r", "e", "f", "s", "/", "t", "a", "g", "s", "/">>

\* A remote's tags: each release is absent, a lightweight tag or an
\* annotated tag.
TagStates(n) == [1..n -> {"absent", "light", "annotated"}]

TagNames(t) == {Releases[i] : i \in {j \in DOMAIN t : t[j] # "absent"}}

RECURSIVE SortedNames(_)
\* The names in ascending lexical order, as git lists refs.
SortedNames(names) ==
    IF names = {} THEN <<>>
    ELSE LET m == CHOOSE x \in names : \A y \in names \ {x} : StrLess(x, y)
         IN <<m>> \o SortedNames(names \ {m})

\* One line of git ls-remote: "<sha>\t<refname>".
RefLine(sha, name) == sha \o <<"\t">> \o REFS_TAGS \o name

\* The lines for one tag: annotated tags get a second, peeled entry.
TagLines(t, i) ==
    IF t[i] = "annotated"
    THEN <<RefLine(<<"a", "0">>, Releases[i]), RefLine(<<"c", "0">>, Releases[i] \o PEEL)>>
    ELSE <<RefLine(<<"c", "0">>, Releases[i])>>

RECURSIVE LinesOf(_, _)
LinesOf(t, names) ==
    IF names = <<>> THEN <<>>
    ELSE TagLines(t, CHOOSE i \in DOMAIN t : Releases[i] = Head(names))
            \o LinesOf(t, Tail(names))

\* What git ls-remote --tags prints for a remote in tag state t (GitPython
\* strips the final newline).
LsRemoteText(t) == Join(LinesOf(t, SortedNames(TagNames(t))), "\n")

\* The texts a command may get from git ls-remote.
Listings == {LsRemoteText(t) : t \in TagStates(MaxRemoteTags)}

\* A name git accepts for a branch or tag (git check-ref-format forbids ^).
IsRefName(r) == r # <<>> /\ \A i \in 1..Len(r) : r[i] # "^"

\* Refs that are branches: a workspace on one of them can be pulled.
IsBranch(r) == r \in {HEAD, MAIN}

(***************************************************************************)
(* State.  A tool invocation is one process: main() constructs a           *)
(* Gitstaller, which loads installed.json, runs one command and exits.     *)
(***************************************************************************)
VARIABLES
    file,       \* installed.json: package name -> record
    workspace,  \* ~/.gitstaller/packages: package name -> checkout
    metadata,   \* self.metadata of the last process, when it ended
    last,       \* the command line of the last process
    result,     \* what the last process reported
    calls,      \* the collaborator calls of the last process, in order
    seen,       \* the text git ls-remote returned to the last process
    resolved,   \* what _get_latest_tag returned to the last process
    procs       \* the invocations that run at the same time: id -> process

vars == <<file, workspace, metadata, last, result, calls, seen, resolved, procs>>

EmptyMap == [k \in {} |-> k]

\* d[k] = v on a dict
Put(d, k, v) == [x \in DOMAIN d \cup {k} |-> IF x = k THEN v ELSE d[x]]

\* the directory tree without the subtree k
Drop(d, k) == [x \in DOMAIN d \ {k} |-> d[x]]

\* A checkout of url at ref; moved: commits were pulled since the checkout.
Checkout(url, ref) == [url |-> url, ref |-> ref, moved |-> FALSE, ok |-> TRUE]

\* A directory that is no complete checkout (a clone or a delete that
\* stopped half way).
Partial(url) == [url |-> url, ref |-> <<>>, moved |-> FALSE, ok |-> FALSE]

Call(name, arg, ref, out) == [call |-> name, arg |-> arg, ref |-> ref, out |-> out]

\* A running process: its self.metadata, the disk, its call log, the
\* exception in flight ("" for none).
Process(f, w) ==
    [metadata |-> f, file |-> f, ws |-> w, calls |-> <<>>, seen |-> NONE,
     resolved |-> NotRun, exc |-> ""]

Log(s, c) == [s EXCEPT !.calls = Append(@, c)]

Raise(s, e) == [s EXCEPT !.exc = e]

\* Statement sequencing: next runs on the states no exception left.
Then(S, next(_)) == UNION {IF s.exc = "" THEN next(s) ELSE {s} : s \in S}

(***************************************************************************)
(* Collaborators.  Each returns the set of states it can leave.            *)
(***************************************************************************)
\* shutil.rmtree(install_path, ignore_errors=True): a failed delete is
\* not raised.
rmtree_ignore_errors(s, name) ==
    { Log([s EXCEPT !.ws = Drop(@, name)], Call("rmtree", name, NONE, "ok")),
      Log([s EXCEPT !.ws = Put(@, name, Partial(s.ws[name].url))],
          Call("rmtree", name, NONE, "PermissionError")) }

\* shutil.rmtree(install_path)
rmtree(s, name) ==
    { Log([s EXCEPT !.ws = Drop(@, name)], Call("rmtree", name, NONE, "ok")),
      Raise(Log([s EXCEPT !.ws = Put(@, name, Partial(s.ws[name].url))],
                Call("rmtree", name, NONE, "PermissionError")), "PermissionError") }

\* Repo.clone_from(repo_url, install_path[, branch=branch])
clone_from(s, repo_url, name, branch) ==
    LET ok == Log([s EXCEPT !.ws = Put(@, name,
                        Checkout(repo_url, IF branch = NONE THEN HEAD ELSE branch))],
                  Call("clone", repo_url, branch, "ok"))
        failed(e) == Raise(Log(s, Call("clone", repo_url, branch, e)), e)
        littered(e) == Raise(Log([s EXCEPT !.ws = Put(@, name, Partial(repo_url))],
                                 Call("clone", repo_url, branch, e)), e)
    IN  IF name \in DOMAIN s.ws THEN {failed("GitCommandError")}
        ELSE IF branch # NONE /\ ~IsRefName(branch)
        THEN {failed("GitCommandError"), littered("GitCommandError")}
        ELSE {ok, failed("GitCommandError"), littered("GitCommandError"),
              failed("PermissionError")}

\* repo.git.checkout(ref)
checkout(s, name, ref) ==
    { Log([s EXCEPT !.ws = Put(@, name, Checkout(s.ws[name].url, ref))],
          Call("checkout", name, ref, "ok")),
      Raise(Log(s, Call("checkout", name, ref, "GitCommandError")), "GitCommandError") }

\* g.ls_remote(repo_url, tags=True)
ls_remote(s, repo_url) ==
    { Log([s EXCEPT !.seen = text], Call("ls_remote", repo_url, NONE, "ok")) :
        text \in Listings }
    \cup { Raise(Log(s, Call("ls_remote", repo_url, NONE, "GitCommandError")),
                 "GitCommandError") }

\* repo.git.fetch('--tags') with its error caught and passed over.
fetch_tags_swallowed(s, name) ==
    { Log(s, Call("fetch", name, NONE, "ok")),
      Log(s, Call("fetch", name, NONE, "GitCommandError")) }

\* repo.git.fetch('--tags')
fetch_tags(s, name) ==
    { Log(s, Call("fetch", name, NONE, "ok")),
      Raise(Log(s, Call("fetch", name, NONE, "GitCommandError")), "GitCommandError") }

\* repo.remotes.origin.pull(): fails on a detached HEAD; else it may bring
\* new commits.
pull(s, name) ==
    LET err == Raise(Log(s, Call("pull", name, NONE, "GitCommandError")), "GitCommandError")
    IN  IF ~IsBranch(s.ws[name].ref) THEN {err}
        ELSE { Log(s, Call("pull", name, NONE, "ok")),
               Log([s EXCEPT !.ws[name].moved = TRUE], Call("pull", name, NONE, "ok")),
               err }

\* Repo(package_path): no GitCommandError, so main() does not catch it.
Repo(s, name) ==
    IF name \notin DOMAIN s.ws THEN {Raise(s, "NoSuchPathError")}
    ELSE IF ~s.ws[name].ok THEN {Raise(s, "InvalidGitRepositoryError")}
    ELSE {s}

(***************************************************************************)
(* Gitstaller methods.                                                     *)
(***************************************************************************)
\* _get_latest_tag
_get_latest_tag(s, repo_url) ==
    Then(ls_remote(s, repo_url), LAMBDA t :
        LET latest_tag == LatestTag(t.seen) IN
        IF latest_tag.kind = "IndexError"
        THEN {Raise([t EXCEPT !.resolved = latest_tag], "IndexError")}
        ELSE {[t EXCEPT !.resolved = latest_tag]})

\* _save_metadata reading installed.json again and updating it with
\* self.metadata.
_save_metadata_merged(s) ==
    {[s EXCEPT !.file = [n \in DOMAIN s.file \cup DOMAIN s.metadata |->
                            IF n \in DOMAIN s.metadata THEN s.metadata[n]
                            ELSE s.file[n]]]}

\* _save_metadata
_save_metadata(s) == {[s EXCEPT !.file = s.metadata]}

\* _checkout_version.  install calls it only when source is not
\* 'latest-release' (line 89), so the branch of line 46 is never taken.
_checkout_version(s, name, source_spec) ==
    IF source_spec = MAIN THEN checkout(s, name, MAIN)
    ELSE checkout(s, name, source_spec)

\* _build_package without its except clause.
_build_package_uncaught(s, name) ==
    { Log(s, Call("build", name, NONE, "ok")),
      Raise(Log(s, Call("build", name, NONE, "CalledProcessError")), "CalledProcessError") }

\* _build_package: a CalledProcessError of the build tool is caught and
\* printed; nothing is raised.
_build_package(s, name) ==
    { Log(s, Call("build", name, NONE, "ok")),
      Log(s, Call("build", name, NONE, "CalledProcessError")) }

\* Lines 89-97 of install: acquire the checkout.
InstallFetch(s, repo_url, name, source) ==
    IF source = LATEST_RELEASE THEN
        Then(_get_latest_tag(s, repo_url), LAMBDA t :
            IF Truthy(t.resolved) THEN clone_from(t, repo_url, name, t.resolved.val)
            ELSE clone_from(t, repo_url, name, NONE))
    ELSE
        Then(clone_from(s, repo_url, name, NONE), LAMBDA t :
            _checkout_version(t, name, source))

\* Lines 104-109 of install: write the record and save.
InstallRecord(s, repo_url, name, source, manual) ==
    _save_metadata([s EXCEPT !.metadata =
        Put(@, name, [url |-> repo_url, source |-> source, manual |-> manual])])

\* What a finished method reports, from the exception the try block left
\* and the exceptions its except clause names.
Report(s, done, caught, error) ==
    [metadata |-> s.metadata, file |-> s.file, ws |-> s.ws, calls |-> s.calls,
     seen |-> s.seen, resolved |-> s.resolved,
     result |-> IF s.exc = "" THEN done ELSE IF s.exc \in caught THEN error ELSE "crash"]

\* Line 78 asking the store instead of the disk.
AlreadyInstalledByRecord(s, package_name, reinstall) ==
    package_name \in DOMAIN s.metadata /\ ~reinstall

\* Line 78 with its "not" lost.
AlreadyInstalledNotLost(s, package_name, reinstall) ==
    package_name \in DOMAIN s.ws /\ reinstall

\* Line 78 of install: os.path.exists(install_path) and not reinstall
AlreadyInstalled(s, package_name, reinstall) ==
    package_name \in DOMAIN s.ws /\ ~reinstall

\* The try body with the record written before the checkout is acquired.
InstallTryRecordFirst(s, repo_url, package_name, source, manual, reinstall) ==
    LET s0 == InstallRecord(s, repo_url, package_name, source, manual)
        s1 == Then(s0, LAMBDA t : IF reinstall /\ package_name \in DOMAIN t.ws
                                  THEN rmtree(t, package_name) ELSE {t})
        s2 == Then(s1, LAMBDA t : InstallFetch(t, repo_url, package_name, source))
    IN  Then(s2, LAMBDA t : IF ~manual THEN _build_package(t, package_name) ELSE {t})

\* Lines 83-101 of install: delete the old workspace, acquire the
\* checkout, build.
InstallAcquire(s, repo_url, package_name, source, manual, reinstall) ==
    LET s1 == IF reinstall /\ package_name \in DOMAIN s.ws
              THEN rmtree(s, package_name) ELSE {s}
        s2 == Then(s1, LAMBDA t : InstallFetch(t, repo_url, package_name, source))
    IN  Then(s2, LAMBDA t : IF ~manual THEN _build_package(t, package_name) ELSE {t})

\* Lines 83-109 of install: the body of the try statement.
InstallTry(s, repo_url, package_name, source, manual, reinstall) ==
    Then(InstallAcquire(s, repo_url, package_name, source, manual, reinstall),
         LAMBDA t : InstallRecord(t, repo_url, package_name, source, manual))

\* install
install(s, repo_url, source, manual, reinstall) ==
    LET package_name == _extract_name(repo_url) IN
    IF AlreadyInstalled(s, package_name, reinstall)
    THEN {Report(s, "already_installed", {}, "")}
    ELSE {Report(t, "installed", {"GitCommandError", "PermissionError"}, "install_error") :
            t \in InstallTry(s, repo_url, package_name, source, manual, reinstall)}

\* Lines 127-133 of update: move the checkout.
UpdateFetch(s, package_name) ==
    IF s.metadata[package_name].source = LATEST_RELEASE THEN
        Then(_get_latest_tag(s, s.metadata[package_name].url), LAMBDA t :
            IF Truthy(t.resolved) THEN
                Then(fetch_tags(t, package_name), LAMBDA u :
                    checkout(u, package_name, t.resolved.val))
            ELSE {t})
    ELSE pull(s, package_name)

\* Line 136 reading only the flag of the call.
UpdateBuildsCallFlagOnly(s, package_name, manual) == ~manual

\* Line 136 of update: the rebuild condition (read without the stray quote
\* that follows False in the source).
UpdateBuilds(s, package_name, manual) ==
    ~manual /\ ~s.metadata[package_name].manual

\* The try body, then the flag of the call stored in the record.
UpdateTryStoresFlag(s, package_name, manual) ==
    LET s1 == Repo(s, package_name)
        s2 == Then(s1, LAMBDA t : UpdateFetch(t, package_name))
        s3 == Then(s2, LAMBDA t : IF UpdateBuilds(t, package_name, manual)
                                  THEN _build_package(t, package_name) ELSE {t})
    IN  Then(s3, LAMBDA t :
            _save_metadata([t EXCEPT !.metadata[package_name].manual = manual]))

\* Lines 124-137 of update: the body of the try statement.
UpdateTry(s, package_name, manual) ==
    LET s1 == Repo(s, package_name)
        s2 == Then(s1, LAMBDA t : UpdateFetch(t, package_name))
    IN  Then(s2, LAMBDA t : IF UpdateBuilds(t, package_name, manual)
                            THEN _build_package(t, package_name) ELSE {t})

\* update without the guard of line 117: line 125 raises KeyError.
update_unguarded(s, package_name, manual) ==
    IF package_name \notin DOMAIN s.metadata
    THEN {Report(Raise(s, "KeyError"), "updated", {"GitCommandError"}, "update_error")}
    ELSE {Report(t, "updated", {"GitCommandError"}, "update_error") :
            t \in UpdateTry(s, package_name, manual)}

\* update
update(s, package_name, manual) ==
    IF package_name \notin DOMAIN s.metadata
    THEN {Report(s, "not_found", {}, "")}
    ELSE {Report(t, "updated", {"GitCommandError"}, "update_error") :
            t \in UpdateTry(s, package_name, manual)}

\* reinstall handing on only the flag of the call.
reinstall_call_flag(s, package_name, manual) ==
    IF package_name \notin DOMAIN s.metadata
    THEN {Report(s, "not_found", {}, "")}
    ELSE LET md == s.metadata[package_name]
         IN install(s, md.url, md.source, manual, TRUE)

\* reinstall
reinstall(s, package_name, manual) ==
    IF package_name \notin DOMAIN s.metadata
    THEN {Report(s, "not_found", {}, "")}
    ELSE LET md == s.metadata[package_name]
         IN install(s, md.url, md.source, manual \/ md.manual, TRUE)

(***************************************************************************)
(* main(): one action per command.                                         *)
(***************************************************************************)
\* The --source and --version arguments of the modelled install commands.
SourceArgs ==
    {<<MAIN, NONE>>, <<LATEST_RELEASE, NONE>>, <<VERSION, NONE>>, <<VERSION, DEADBEEF>>,
     <<VERSION, MAIN>>, <<VERSION, LATEST_RELEASE>>, <<MAIN, DEADBEEF>>}

\* Lines 195-199 of main: the source specification handed to install.
SourceSpec(source, version) == IF version # NONE THEN version ELSE source

Cmd(op, target, source, version, manual) ==
    [op |-> op, target |-> target, source |-> source, version |-> version,
     manual |-> manual]

\* The process ends in outcome o.
Exit(o, cmd) ==
    /\ file' = o.file
    /\ workspace' = o.ws
    /\ metadata' = o.metadata
    /\ result' = o.result
    /\ calls' = o.calls
    /\ seen' = o.seen
    /\ resolved' = o.resolved
    /\ last' = cmd
    /\ UNCHANGED procs

\* A package installed before the modelled commands run, by
\* "gitstaller install a/bar"; the modelled commands do not name it.
BAR == _extract_name(L_BAR)

BarRecord == [url |-> L_BAR, source |-> MAIN, manual |-> FALSE]

Stores == {EmptyMap, Put(EmptyMap, BAR, BarRecord)}

Init ==
    /\ file \in Stores
    /\ workspace = [n \in DOMAIN file |-> Checkout(file[n].url, file[n].source)]
    /\ metadata = file
    /\ last = Cmd("none", NONE, NONE, NONE, FALSE)
    /\ result = ""
    /\ calls = <<>>
    /\ seen = NONE
    /\ resolved = NotRun
    /\ procs = EmptyMap

\* gitstaller install <repo_url> [--manual] [--source s] [--version v]
Install(repo_url, source, version, manual) ==
    LET cmd == Cmd("install", repo_url, source, version, manual) IN
    IF source = VERSION /\ version = NONE
    THEN Exit(Report(Raise(Process(file, workspace), "ValueError"),
                     "", {"ValueError"}, "invalid_args"), cmd)
    ELSE \E o \in install(Process(file, workspace), repo_url,
                          SourceSpec(source, version), manual, FALSE) : Exit(o, cmd)

\* gitstaller update <package_name> [--manual]
Update(package_name, manual) ==
    \E o \in update(Process(file, workspace), package_name, manual) :
        Exit(o, Cmd("update", package_name, NONE, NONE, manual))

\* gitstaller reinstall <package_name> [--manual]
Reinstall(package_name, manual) ==
    \E o \in reinstall(Process(file, workspace), package_name, manual) :
        Exit(o, Cmd("reinstall", package_name, NONE, NONE, manual))

\* gitstaller remove <package_name>: Gitstaller has no remove method, the
\* call of line 206 raises AttributeError, which main() does not catch.
Remove(package_name) ==
    Exit(Report(Raise(Process(file, workspace), "AttributeError"),
                "", {"ValueError"}, "invalid_args"),
         Cmd("remove", package_name, NONE, NONE, FALSE))

Next ==
    \/ \E u \in Locators, a \in SourceArgs, m \in BOOLEAN : Install(u, a[1], a[2], m)
    \/ \E n \in Names, m \in BOOLEAN : Update(n, m)
    \/ \E n \in Names, m \in BOOLEAN : Reinstall(n, m)
    \/ \E n \in Names : Remove(n)

Spec == Init /\ [][Next]_vars

(***************************************************************************)
(* The version resolver on its own: a remote with any tags, resolved.      *)
(***************************************************************************)
\* The texts git ls-remote prints for the remotes the resolver is run on.
ResolverListings == {LsRemoteText(t) : t \in TagStates(NumReleases)}

InitTags ==
    /\ file = EmptyMap
    /\ workspace = EmptyMap
    /\ metadata = EmptyMap
    /\ last = Cmd("none", NONE, NONE, NONE, FALSE)
    /\ result = ""
    /\ calls = <<>>
    /\ seen \in ResolverListings
    /\ resolved = NotRun
    /\ procs = EmptyMap

\* _get_latest_tag is run on the text the remote printed.
Resolve ==
    /\ resolved' = LatestTag(seen)
    /\ last' = Cmd("resolve", NONE, NONE, NONE, FALSE)
    /\ UNCHANGED <<file, workspace, metadata, result, calls, seen, procs>>

\* The remote's tags change.
Retag ==
    /\ seen' \in ResolverListings
    /\ resolved' = NotRun
    /\ last' = Cmd("none", NONE, NONE, NONE, FALSE)
    /\ UNCHANGED <<file, workspace, metadata, result, calls, procs>>

NextTags == Resolve \/ Retag

SpecTags == InitTags /\ [][NextTags]_vars

(***************************************************************************)
(* Two invocations of the tool that run at the same time.  installed.json  *)
(* is not locked: each process reads the whole file in __init__ and writes *)
(* the whole file in _save_metadata.                                       *)
(***************************************************************************)
Pids == {1, 2}

\* The locators and sources of the install commands run at the same time.
ConcLocators == {L_FOO, L_BAR}

ConcSources == {MAIN, LATEST_RELEASE}

\* A process that has not been started.
Idle ==
    [pc |-> "idle", metadata |-> EmptyMap,
     cmd |-> Cmd("none", NONE, NONE, NONE, FALSE), result |-> ""]

InitConc ==
    /\ file = EmptyMap
    /\ workspace = EmptyMap
    /\ metadata = EmptyMap
    /\ last = Cmd("none", NONE, NONE, NONE, FALSE)
    /\ result = ""
    /\ calls = <<>>
    /\ seen = NONE
    /\ resolved = NotRun
    /\ procs = [p \in Pids |-> Idle]

\* What the methods of process p work on: its own self.metadata, and the
\* file and the workspaces as they are now.
Self(p) == [Process(file, workspace) EXCEPT !.metadata = procs[p].metadata]

\* gitstaller install <repo_url> [--manual] [--source s] is started:
\* main() constructs Gitstaller, whose __init__ loads installed.json.
Start(p, repo_url, source, manual) ==
    /\ procs[p].pc = "idle"
    /\ procs' = [procs EXCEPT ![p] =
                    [pc |-> "loaded", metadata |-> file,
                     cmd |-> Cmd("install", repo_url, source, NONE, manual),
                     result |-> ""]]
    /\ UNCHANGED <<file, workspace, metadata, last, result, calls, seen, resolved>>

\* Lines 75-101 of install in process p: the test of line 78, then delete,
\* fetch and build.
Acquire(p) ==
    /\ procs[p].pc = "loaded"
    /\ LET cmd == procs[p].cmd
           package_name == _extract_name(cmd.target)
       IN  IF AlreadyInstalled(Self(p), package_name, FALSE)
           THEN /\ procs' = [procs EXCEPT ![p].pc = "done",
                                          ![p].result = "already_installed"]
                /\ UNCHANGED workspace
           ELSE \E t \in InstallAcquire(Self(p), cmd.target, package_name,
                                        SourceSpec(cmd.source, cmd.version),
                                        cmd.manual, FALSE) :
                    /\ workspace' = t.ws
                    /\ procs' = [procs EXCEPT
                          ![p].pc = IF t.exc = "" THEN "fetched" ELSE "done",
                          ![p].result =
                              IF t.exc = "" THEN ""
                              ELSE Report(t, "installed",
                                          {"GitCommandError", "PermissionError"},
                                          "install_error").result]
    /\ UNCHANGED <<file, metadata, last, result, calls, seen, resolved>>

\* Lines 104-110 of install in process p: write the record into
\* self.metadata, save, report success.
Record(p) ==
    /\ procs[p].pc = "fetched"
    /\ LET cmd == procs[p].cmd
       IN  \E t \in InstallRecord(Self(p), cmd.target, _extract_name(cmd.target),
                                  SourceSpec(cmd.source, cmd.version), cmd.manual) :
               /\ file' = t.file
               /\ procs' = [procs EXCEPT ![p].pc = "done",
                                         ![p].metadata = t.metadata,
                                         ![p].result = "installed"]
    /\ UNCHANGED <<workspace, metadata, last, result, calls, seen, resolved>>

NextConc ==
    \E p \in Pids :
        \/ \E u \in ConcLocators, s \in ConcSources, m \in BOOLEAN : Start(p, u, s, m)
        \/ Acquire(p)
        \/ Record(p)

SpecConc == InitConc /\ [][NextConc]_vars

(***************************************************************************)
(* Properties.                                                             *)
(***************************************************************************)
\* The package a command line names.
NameOf(cmd) == IF cmd.op = "install" THEN _extract_name(cmd.target) ELSE cmd.target

\* The calls of cs to collaborator c.
CallsTo(cs, c) == {i \in 1..Len(cs) : cs[i].call = c}

Called(cs, c) == CallsTo(cs, c) # {}

CalledWith(cs, c, out) == \E i \in CallsTo(cs, c) : cs[i].out = out

\* The source specification main() hands to install for a command line.
SpecOf(cmd) == SourceSpec(cmd.source, cmd.version)

\* The command line makes main() call install (line 200).
CallsInstall(cmd) == cmd.op = "install" /\ ~(cmd.source = VERSION /\ cmd.version = NONE)

\* C1: an install that succeeded, followed by the same install command, is
\* answered "already installed": nothing is called, the store keeps its one
\* record of the name unchanged and no workspace is touched.
C1_SecondInstallIsNoOp ==
    [][ (/\ last.op = "install" /\ result = "installed"
         /\ CallsInstall(last') /\ last'.target = last.target)
        => (/\ result' = "already_installed"
            /\ calls' = <<>>
            /\ file' = file /\ metadata' = file
            /\ workspace' = workspace
            /\ NameOf(last) \in DOMAIN file'
            /\ file'[NameOf(last)].url = last.target) ]_vars

C1_Witness ==
    /\ last.op = "install" /\ result = "already_installed" /\ calls = <<>>
    /\ NameOf(last) \in DOMAIN file
    /\ file[NameOf(last)].url = last.target

\* C2: every package name of the store has a workspace on disk.
C2_RecordHasWorkspace == \A n \in DOMAIN file : n \in DOMAIN workspace

\* C3: an install that ends with an error of its clone, checkout or delete
\* step leaves the store as it was, in memory and on disk; and a record
\* changes or appears only in a step that reports a successful install.
C3_FailedInstallKeepsStore ==
    [][ /\ (last'.op \in {"install", "reinstall"} /\ result' = "install_error")
            => (file' = file /\ metadata' = file)
        /\ (file' # file) => result' = "installed" ]_vars

C3_Witness ==
    /\ last.op = "install" /\ result = "install_error"
    /\ calls[Len(calls)].call \in {"clone", "checkout"}
    /\ calls[Len(calls)].out \in {"GitCommandError", "PermissionError"}

\* The clone and the checkout of the last install command succeeded.
FetchSucceeded ==
    /\ CalledWith(calls, "clone", "ok")
    /\ SpecOf(last) # LATEST_RELEASE => CalledWith(calls, "checkout", "ok")

\* C4: when the clone and the checkout of a non-manual install succeed, the
\* build is invoked and, whether it succeeds or fails, the record is
\* written and saved and success is reported; an update whose rebuild
\* fails reports success too.
C4_BuildFailureDoesNotAbort ==
    /\ (last.op = "install" /\ ~last.manual /\ FetchSucceeded)
        => /\ Called(calls, "build")
           /\ result = "installed"
           /\ NameOf(last) \in DOMAIN file
           /\ file[NameOf(last)] =
                [url |-> last.target, source |-> SpecOf(last), manual |-> FALSE]
           /\ metadata = file
    /\ (last.op = "update" /\ CalledWith(calls, "build", "CalledProcessError"))
        => result = "updated"

C4_Witness ==
    /\ last.op = "install" /\ ~last.manual /\ FetchSucceeded
    /\ CalledWith(calls, "build", "CalledProcessError")
    /\ result = "installed"

\* C5: an update invokes the build only if neither the flag of the call nor
\* the manual flag of the record is set.
C5_UpdateBuildsOnlyIfBothFlagsClear ==
    [][ (last'.op = "update" /\ Called(calls', "build"))
        => (~last'.manual /\ ~file[last'.target].manual) ]_vars

C5_Witness ==
    /\ last.op = "update" /\ ~last.manual /\ result = "updated"
    /\ file[last.target].manual
    /\ ~Called(calls, "build")

\* C6: a reinstall of a recorded package deletes the workspace, clones the
\* stored locator at the stored source, builds only if neither the flag of
\* the call nor the stored flag is set, and on success leaves the record
\* with the stored locator and source and manual = call flag or stored flag.
C6_ReinstallUsesStoredRecord ==
    [][ (last'.op = "reinstall" /\ last'.target \in DOMAIN file)
        => LET n == last'.target
               old == file[n]
               flag == last'.manual \/ old.manual
           IN /\ n \in DOMAIN workspace => calls'[1].call = "rmtree"
              /\ \A i \in CallsTo(calls', "clone") : calls'[i].arg = old.url
              /\ \A i \in CallsTo(calls', "ls_remote") :
                    calls'[i].arg = old.url /\ old.source = LATEST_RELEASE
              /\ \A i \in CallsTo(calls', "checkout") : calls'[i].ref = old.source
              /\ Called(calls', "build") => ~flag
              /\ result' = "installed"
                    => file' = Put(file, n, [url |-> old.url, source |-> old.source,
                                             manual |-> flag]) ]_vars

C6_Witness ==
    /\ last.op = "reinstall" /\ ~last.manual /\ result = "installed"
    /\ file[last.target].manual
    /\ ~Called(calls, "build")

\* C7: an update leaves the store as it was, in memory and on disk,
\* whatever its outcome.
C7_UpdateKeepsStore ==
    [][ last'.op = "update" => (file' = file /\ metadata' = file) ]_vars

C7_Witness ==
    /\ last.op = "update" /\ result = "updated"
    /\ workspace[last.target].moved
    /\ CalledWith(calls, "build", "CalledProcessError")

\* C8: an update or reinstall of a name that is no key of the store reports
\* "not found", calls no collaborator and leaves store and workspaces alone.
C8_UnknownNameIsNoOp ==
    [][ (last'.op \in {"update", "reinstall"} /\ last'.target \notin DOMAIN file)
        => (/\ result' = "not_found"
            /\ calls' = <<>>
            /\ file' = file /\ metadata' = file
            /\ workspace' = workspace) ]_vars

C8_Witness ==
    /\ last.op \in {"update", "reinstall"} /\ result = "not_found"
    /\ last.target \in DOMAIN workspace

\* C9: an install of the latest release from a remote without tags gets
\* None from _get_latest_tag, clones without a branch and, when that clone
\* succeeds, reports success with the record written.
C9_ZeroTagsFallsBack ==
    (/\ last.op = "install" /\ SpecOf(last) = LATEST_RELEASE
     /\ CalledWith(calls, "ls_remote", "ok") /\ seen = <<>>)
    => /\ resolved = None
       /\ \E i \in CallsTo(calls, "clone") : calls[i].ref = NONE
       /\ CalledWith(calls, "clone", "ok")
            => (result = "installed" /\ NameOf(last) \in DOMAIN file)

\* major, minor and patch number of each of the Releases.
ReleaseNumbers ==
    <<<<1, 9, 0>>, <<1, 10, 0>>, <<1, 2, 0>>, <<2, 0, 0>>, <<0, 9, 9>>, <<1, 9, 1>>>>

NumbersOf(name) == ReleaseNumbers[CHOOSE i \in 1..Len(Releases) : Releases[i] = name]

\* a before b, the segments compared as numbers from the left
NumbersLess(a, b) ==
    \/ a[1] < b[1]
    \/ a[1] = b[1] /\ a[2] < b[2]
    \/ a[1] = b[1] /\ a[2] = b[2] /\ a[3] < b[3]

GreatestTag(names) ==
    CHOOSE x \in names : \A y \in names : ~NumbersLess(NumbersOf(x), NumbersOf(y))

\* C10: for a remote with at least one tag, _get_latest_tag returns the tag
\* whose segments are greatest as numbers.
C10_LatestTagIsNumericallyGreatest ==
    resolved # NotRun
    => \A t \in TagStates(NumReleases) :
          (seen = LsRemoteText(t) /\ TagNames(t) # {})
          => resolved = Str(GreatestTag(TagNames(t)))

\* C11: a successful install with --source version --version R, whatever R
\* is spelled, queries no remote tags, checks out exactly R, leaves the
\* workspace at R and records R as the source of the package.
C11_VersionInstallPinsRef ==
    (/\ last.op = "install" /\ last.source = VERSION /\ last.version # NONE
     /\ result = "installed")
    => /\ ~Called(calls, "ls_remote")
       /\ \E i \in CallsTo(calls, "checkout") :
             calls[i].ref = last.version /\ calls[i].out = "ok"
       /\ workspace[NameOf(last)].ref = last.version
       /\ file[NameOf(last)].source = last.version

\* C12: an update that follows a successful install pinned to R leaves the
\* workspace as the install left it, checked out at R.
C12_UpdateOfPinnedIsNoOp ==
    [][ (/\ last.op = "install" /\ last.source = VERSION /\ last.version # NONE
         /\ result = "installed"
         /\ last'.op = "update" /\ last'.target = NameOf(last))
        => (/\ workspace' = workspace
            /\ workspace'[NameOf(last)].ref = last.version) ]_vars

\* C13: the source and the manual flag of an existing record change only in
\* a reinstall of its package.
C13_RecordChangesOnlyByReinstall ==
    [][ \A n \in DOMAIN file :
            (n \notin DOMAIN file'
             \/ file'[n].source # file[n].source
             \/ file'[n].manual # file[n].manual)
            => (last'.op = "reinstall" /\ last'.target = n) ]_vars

\* The name both modelled locators end in.
FOO == <<"f", "o", "o">>

\* C14: an install that succeeded for one locator, followed by an install
\* (without reinstall) of another locator of the same package name, is
\* answered "already installed": nothing is called, so nothing is deleted or
\* cloned, and the record still holds the first locator with its source and
\* manual flag.
C14_OtherLocatorSameNameRejected ==
    [][ (/\ CallsInstall(last) /\ result = "installed"
         /\ last.target \in Locators
         /\ CallsInstall(last') /\ last'.target \in Locators
         /\ last'.target # last.target)
        => (/\ result' = "already_installed"
            /\ calls' = <<>>
            /\ workspace' = workspace
            /\ file' = file /\ metadata' = file
            /\ FOO \in DOMAIN file'
            /\ file'[FOO] = [url |-> last.target, source |-> SpecOf(last),
                             manual |-> last.manual]) ]_vars

C14_Witness ==
    /\ CallsInstall(last) /\ result = "already_installed" /\ calls = <<>>
    /\ FOO \in DOMAIN file /\ FOO \in DOMAIN workspace
    /\ file[FOO].url \in Locators \ {last.target}
    /\ workspace[FOO].url = file[FOO].url

\* C15: a remove of a recorded package ends either with its workspace and
\* its record both gone, or with store and workspaces unchanged and an error
\* reported by the tool (the command does not die of an unhandled
\* exception); never with exactly one of the two gone.
C15_RemoveIsAtomic ==
    [][ (last'.op = "remove" /\ last'.target \in DOMAIN file)
        => LET n == last'.target
           IN \/ n \notin DOMAIN file' /\ n \notin DOMAIN workspace'
              \/ /\ file' = file /\ workspace' = workspace
                 /\ result' # "crash" ]_vars

\* C16: in a reinstall of a package whose workspace exists, every remote
\* tag query and every clone comes after a delete of the workspace that
\* completed; after a delete that failed nothing is queried or cloned.
C16_DeleteCompletesBeforeClone ==
    [][ (/\ last'.op = "reinstall" /\ last'.target \in DOMAIN file
         /\ last'.target \in DOMAIN workspace)
        => /\ calls' # <<>> /\ calls'[1].call = "rmtree"
           /\ \A i \in CallsTo(calls', "clone") \cup CallsTo(calls', "ls_remote") :
                 \E j \in CallsTo(calls', "rmtree") : j < i /\ calls'[j].out = "ok"
           /\ CalledWith(calls', "rmtree", "PermissionError")
                 => (Len(calls') = 1 /\ result' = "install_error") ]_vars

C16_Witness ==
    /\ last.op = "reinstall" /\ Len(calls) >= 3
    /\ calls[1].call = "rmtree" /\ calls[1].out = "ok"
    /\ calls[2].call = "ls_remote"
    /\ calls[3].call = "clone" /\ calls[3].out = "ok"

\* C17: after a reinstall that deleted the old workspace and whose clone
\* then failed, the package has no record and no workspace.
C17_FailedReinstallLeavesNothing ==
    (/\ last.op = "reinstall"
     /\ CalledWith(calls, "rmtree", "ok")
     /\ \E i \in CallsTo(calls, "clone") : calls[i].out # "ok")
    => /\ last.target \notin DOMAIN file
       /\ last.target \notin DOMAIN workspace

\* The version-control steps of update.
UpdateSteps == {"ls_remote", "fetch", "checkout", "pull"}

\* C18: when a version-control step of an update reports an error, that
\* step is the last call of the update: no later step runs, the build is
\* not invoked, and the update reports an error and not success.
C18_UpdateAbortsAtFailedStep ==
    last.op = "update"
    => \A i \in 1..Len(calls) :
          (calls[i].call \in UpdateSteps /\ calls[i].out # "ok")
          => /\ i = Len(calls)
             /\ ~Called(calls, "build")
             /\ result = "update_error"

C18_Witness ==
    /\ last.op = "update" /\ ~last.manual
    /\ last.target \in DOMAIN file /\ ~file[last.target].manual
    /\ Len(calls) = 2
    /\ calls[1].call = "ls_remote" /\ calls[1].out = "ok"
    /\ calls[2].call = "fetch" /\ calls[2].out = "GitCommandError"
    /\ result = "update_error"

\* C20: while a workspace of a name exists without a record, every install
\* of a locator of that name is answered "already installed", every update
\* and reinstall of the name "not found", and no install, update or
\* reinstall creates a record of the name or changes its workspace.
C20_OrphanWorkspaceIsAbsorbing ==
    [][ \A n \in DOMAIN workspace \ DOMAIN file :
            /\ n \in DOMAIN workspace' /\ workspace'[n] = workspace[n]
            /\ n \notin DOMAIN file'
            /\ (CallsInstall(last') /\ last'.target \in Locators /\ n = FOO)
                    => (result' = "already_installed" /\ calls' = <<>>)
            /\ (last'.op \in {"update", "reinstall"} /\ last'.target = n)
                    => (result' = "not_found" /\ calls' = <<>>) ]_vars

C20_Witness ==
    /\ FOO \in DOMAIN workspace /\ FOO \notin DOMAIN file
    /\ last.op = "reinstall" /\ last.target = FOO /\ result = "not_found"
    /\ workspace[FOO].ok

\* C19: installed.json is not locked.  When two installs that run at the
\* same time both report success and neither process had the other's
\* record in the store it loaded, the store on disk lacks one of the two
\* records: the later save writes its own copy over the whole file.  The
\* witness is the interleaving in which both report success and a record
\* is lost.
C19_UnseenRecordIsLost ==
    \A p, q \in DOMAIN procs :
        (/\ p # q
         /\ procs[p].result = "installed" /\ procs[q].result = "installed"
         /\ NameOf(procs[q].cmd) \notin DOMAIN procs[p].metadata
         /\ NameOf(procs[p].cmd) \notin DOMAIN procs[q].metadata)
        => ~(/\ NameOf(procs[p].cmd) \in DOMAIN file
             /\ NameOf(procs[q].cmd) \in DOMAIN file)

C19_Witness ==
    \E p, q \in DOMAIN procs :
        /\ p # q
        /\ procs[p].result = "installed" /\ procs[q].result = "installed"
        /\ NameOf(procs[p].cmd) \in DOMAIN workspace
        /\ NameOf(procs[q].cmd) \in DOMAIN workspace
        /\ NameOf(procs[p].cmd) \notin DOMAIN file
        /\ NameOf(procs[q].cmd) \in DOMAIN file

====
